---- MODULE Spec2Model ----
(***************************************************************************)
(* snmptools: the bridge between der_parser Oids and the net-snmp MIB      *)
(* resolver (src/src/lib.rs).  The model covers both builds of the crate   *)
(* (feature "dynamic" on or off), the three public operations init,        *)
(* get_name and get_oid, the process environment, the OnceCell NETSNMP and *)
(* the native primitives init_snmp, snprint_objid and get_node.            *)
(*                                                                         *)
(* Text is a sequence of numbers: a Rust str is a sequence of code points, *)
(* a C string or a byte buffer is a sequence of bytes.                     *)
(***************************************************************************)
EXTENDS Integers, Sequences, FiniteSets, TLC

VARIABLES
    variant,      \* "static" or "dynamic": the cargo feature the crate is built with
    env,          \* the process environment: variable name -> value or Unset
    NETSNMP,      \* the OnceCell of lib.rs:16: None, or the library stored in it
    nativeInits,  \* ghost: how many times the native init_snmp has been invoked
    initDone,     \* ghost: some init call has returned Ok(())
    last          \* ghost: the record of the last public call

vars == <<variant, env, NETSNMP, nativeInits, initDone, last>>

----------------------------------------------------------------------------
(* Bounds and scaled constants *)

\* lib.rs:18 (dynamic) and netsnmp_sys::MAX_OID_LEN (static) are 128; the model
\* keeps the array capacity as a parameter and checks it at a small value.
MAX_OID_LEN == 10

\* lib.rs:61 is 1024; scaled the same way (it must exceed the longest MIB name).
MAX_NAME_LEN == 32

\* The largest value of the native oid type (u64::MAX in the source), scaled to
\* fit TLC's integers.
OID_MAX == 1000

\* How many elements past MAX_OID_LEN an input OID may have.
MaxExtra == 2

\* The largest number of paths a Config carries in mibs and mib_dirs together.
MaxPaths == 2

\* The largest number of native init_snmp invocations explored.
MaxInits == 2

----------------------------------------------------------------------------
(* Text *)

None == "None"
\* An environment variable is unset, or set to a value.
Unset == [set |-> FALSE, val |-> <<>>]
Set(value) == [set |-> TRUE, val |-> value]

NUL == 0
CH_colon == 58
\* The other characters the model uses: two letters, the dot and the digit
\* zero of the numeric OID form, a byte that is never valid in UTF-8, and
\* U+FFFD, the code point lossy decoding substitutes for it.
Ch == [a |-> 97, b |-> 98, dot |-> 46, zero |-> 48, bad |-> 255, repl |-> 65533]

HasNul(s) == \E i \in 1..Len(s) : s[i] = NUL

RECURSIVE Concat(_)
Concat(ss) == IF ss = <<>> THEN <<>> ELSE Head(ss) \o Concat(Tail(ss))

Take(s, n) == SubSeq(s, 1, IF n < Len(s) THEN n ELSE Len(s))

Repeat(x, n) == [i \in 1..n |-> x]

\* str::as_bytes: the UTF-8 encoding of a code point below 0x10000.
Utf8Char(cp) ==
    IF cp < 128 THEN <<cp>>
    ELSE IF cp < 2048 THEN <<192 + (cp \div 64), 128 + (cp % 64)>>
    ELSE <<224 + (cp \div 4096), 128 + ((cp \div 64) % 64), 128 + (cp % 64)>>

Utf8Encode(str) == Concat([i \in 1..Len(str) |-> Utf8Char(str[i])])

\* String::from_utf8_lossy over the bytes the model uses: an ASCII byte is its
\* own code point, a byte that cannot start a UTF-8 sequence becomes U+FFFD.
to_string_lossy(bytes) ==
    [i \in 1..Len(bytes) |-> IF bytes[i] < 128 THEN bytes[i] ELSE Ch.repl]

\* CString::new: fails when the bytes hold an interior NUL.
cstring_new(str) ==
    LET b == Utf8Encode(str)
    IN  IF HasNul(b) THEN [ok |-> FALSE, bytes |-> <<>>] ELSE [ok |-> TRUE, bytes |-> b \o <<NUL>>]

----------------------------------------------------------------------------
(* Config and the process environment *)

\* The paths a Config may list: two clean ones and one with a NUL byte.
CleanPaths == {<<Ch.a>>, <<Ch.b>>}
NulPath == <<Ch.a, NUL>>

RECURSIVE SeqsUpTo(_, _)
SeqsUpTo(S, n) ==
    IF n = 0 THEN {<<>>}
    ELSE LET shorter == SeqsUpTo(S, n - 1)
         IN  shorter \cup {Append(s, x) : s \in {t \in shorter : Len(t) = n - 1}, x \in S}

CleanLists == SeqsUpTo(CleanPaths, MaxPaths)

\* The (mibs, mib_dirs) pairs with a NUL byte somewhere.
NulPairs ==
    { << <<NulPath>>, <<>> >>, << <<>>, <<NulPath>> >>,
      << <<NulPath>>, << <<Ch.b>> >> >>, << << <<Ch.a>> >>, <<NulPath>> >>,
      << << <<Ch.a>>, NulPath >>, <<>> >> }

AppNames == {<<Ch.a>>, <<Ch.a, NUL, Ch.b>>}

\* The shared libraries on the system (dynamic build): the symbols each exports,
\* or None when the loader cannot open the path.
LibSymbols ==
    [ full    |-> {"init_snmp", "snprint_objid", "get_node"},
      noinit  |-> {"snprint_objid", "get_node"},
      noprint |-> {"init_snmp", "get_node"},
      nonode  |-> {"init_snmp", "snprint_objid"} ]

LibPaths == {"", "absent", "full", "noinit", "noprint", "nonode"}

\* Config (lib.rs:64-70).  lib_path exists in the dynamic build only; in the
\* static build the model leaves it at "".
Cfg(lib_path, app_name, mibs, mib_dirs) ==
    [lib_path |-> lib_path, app_name |-> app_name, mibs |-> mibs, mib_dirs |-> mib_dirs]

\* The (mibs, mib_dirs) pairs explored: all clean ones with at most MaxPaths
\* paths in all, and the pairs with a NUL byte.
ListPairs ==
    {p \in CleanLists \X CleanLists : Len(p[1]) + Len(p[2]) <= MaxPaths} \cup NulPairs

\* Every pair of lists, with a good application name and library.
ListConfigs(lib) == {Cfg(lib, <<Ch.a>>, p[1], p[2]) : p \in ListPairs}

\* Every application name and library path, with no lists or one path in each.
PlainConfigs(libs) ==
    {Cfg(l, n, p[1], p[2]) : l \in libs, n \in AppNames,
                             p \in {<<<<>>, <<>>>>, <<<< <<Ch.a>> >>, << <<Ch.b>> >>>>}}

StaticListConfigs == ListConfigs("")
DynamicListConfigs == ListConfigs("full")
StaticPlainConfigs == PlainConfigs({""})
DynamicPlainConfigs == PlainConfigs(LibPaths)

ListConfigsOfBuild == IF variant = "static" THEN StaticListConfigs ELSE DynamicListConfigs
PlainConfigsOfBuild == IF variant = "static" THEN StaticPlainConfigs ELSE DynamicPlainConfigs

EnvVars == {"MIBS", "MIBDIRS", "HOME"}

InitialEnv == [v \in EnvVars |-> IF v = "HOME" THEN Set(<<Ch.a>>) ELSE Unset]

\* [&str]::join(":") as the standard library builds it: the first element, then
\* the separator and the next element for each of the rest.
RECURSIVE join_reversed(_)
join_reversed(list) ==
    IF list = <<>> THEN <<>>
    ELSE IF Len(list) = 1 THEN Head(list)
    ELSE join_reversed(Tail(list)) \o <<CH_colon>> \o Head(list)

RECURSIVE join_rest(_, _)
join_rest(acc, rest) ==
    IF rest = <<>> THEN acc
    ELSE join_rest(acc \o <<CH_colon>> \o Head(rest), Tail(rest))

join(list) == IF list = <<>> THEN <<>> ELSE join_rest(Head(list), Tail(list))

----------------------------------------------------------------------------
(* init (lib.rs:119-145), step by step.  A step takes the context of the     *)
(* running call and returns it updated; once res is no longer "Running" the  *)
(* call has returned (or panicked) and the remaining steps do nothing.       *)

Ctx0 ==
    [ env |-> env, cell |-> NETSNMP, inits |-> nativeInits,
      steps |-> <<>>, called |-> FALSE, sawEnv |-> env, lib |-> None, res |-> "Running" ]

Done(c, step) == [c EXCEPT !.steps = Append(@, step)]

\* env::set_var panics when the value holds a NUL byte.
set_var(c, key, value) ==
    IF HasNul(Utf8Encode(value)) THEN [c EXCEPT !.res = "Panic"]
    ELSE [c EXCEPT !.env[key] = Set(value)]

\* lib.rs:120-125
env_step(cfg, c) ==
    LET c1 == IF cfg.mibs # <<>> THEN set_var(c, "MIBS", join(cfg.mibs)) ELSE c
        c2 == IF c1.res = "Running" /\ cfg.mib_dirs # <<>>
              THEN set_var(c1, "MIBDIRS", join(cfg.mib_dirs)) ELSE c1
    IN  IF c2.res = "Running" THEN Done(c2, "env") ELSE c2

\* lib.rs:126
app_name_step(cfg, c) ==
    IF c.res # "Running" THEN c
    ELSE IF cstring_new(cfg.app_name).ok THEN Done(c, "app_name")
    ELSE [c EXCEPT !.res = "Panic"]

\* lib.rs:129-131
lib_path_step(cfg, c) ==
    IF c.res # "Running" \/ variant # "dynamic" THEN c
    ELSE IF cfg.lib_path = "" THEN [c EXCEPT !.res = "Failed"]
    ELSE Done(c, "lib_path")

\* lib.rs:132
open_step(cfg, c) ==
    IF c.res # "Running" \/ variant # "dynamic" THEN c
    ELSE IF cfg.lib_path \in DOMAIN LibSymbols
         THEN Done([c EXCEPT !.lib = cfg.lib_path], "open")
    ELSE [c EXCEPT !.res = "Failed"]

resolve_step_unchecked(cfg, c) ==
    IF c.res # "Running" \/ variant # "dynamic" THEN c ELSE Done(c, "resolve")

\* lib.rs:133-134: only init_snmp is looked up here
resolve_step(cfg, c) ==
    IF c.res # "Running" \/ variant # "dynamic" THEN c
    ELSE IF "init_snmp" \in LibSymbols[c.lib] THEN Done(c, "resolve")
    ELSE [c EXCEPT !.res = "Failed"]

\* lib.rs:135 and lib.rs:141: the native init_snmp reads the environment
native_init_step(cfg, c) ==
    IF c.res # "Running" THEN c
    ELSE Done([c EXCEPT !.inits = @ + 1, !.called = TRUE, !.sawEnv = c.env], "native_init")

store_step_overwrite(cfg, c) ==
    IF c.res # "Running" \/ variant # "dynamic" THEN c
    ELSE Done([c EXCEPT !.cell = c.lib], "store")

\* lib.rs:136: OnceCell::set gives Err when the cell is full, and unwrap panics
store_step(cfg, c) ==
    IF c.res # "Running" \/ variant # "dynamic" THEN c
    ELSE IF c.cell = None THEN Done([c EXCEPT !.cell = c.lib], "store")
    ELSE [c EXCEPT !.res = "Panic"]

\* lib.rs:144
ok_step(c) == IF c.res = "Running" THEN [c EXCEPT !.res = "Ok"] ELSE c

init_run_native_first(cfg, c) ==
    ok_step(store_step(cfg, resolve_step(cfg, open_step(cfg, lib_path_step(cfg,
        app_name_step(cfg, env_step(cfg, native_init_step(cfg, c))))))))

init_run(cfg, c) ==
    ok_step(store_step(cfg, native_init_step(cfg, resolve_step(cfg, open_step(cfg,
        lib_path_step(cfg, app_name_step(cfg, env_step(cfg, c))))))))

----------------------------------------------------------------------------
(* The native resolver (net-snmp), seen through its three primitives *)

\* The OID and the name of the crate's own test (lib.rs:249, lib.rs:251).
TestOid == <<1, 3, 6, 1, 4, 1, 2, 6, 201, 3>>
TestName ==
    <<73, 66, 77, 45, 67, 80, 83, 45, 77, 73, 66, 58, 58, 99, 112, 115, 83, 121,
      115, 116, 101, 109, 83, 101, 110, 100, 84, 114, 97, 112>>

\* p extended with ones to n elements (or cut to n).
Extend(p, n) == [i \in 1..n |-> IF i <= Len(p) THEN p[i] ELSE 1]

\* A MIB object whose OID fills the native array exactly.
CapOid == Extend(<<1, 3>>, MAX_OID_LEN)
CapName == <<Ch.b, CH_colon, CH_colon, Ch.a>>

\* The MIB tree once init_snmp has loaded it.
MibOids == {TestOid, CapOid}
MibName(oid) == IF oid = TestOid THEN TestName ELSE CapName

RECURSIVE Decimal(_)
Decimal(n) == IF n < 10 THEN <<Ch.zero + n>> ELSE Append(Decimal(n \div 10), Ch.zero + (n % 10))

\* What the resolver prints for an OID it has no name for.
Numeric(oid) == Concat([i \in 1..Len(oid) |-> <<Ch.dot>> \o Decimal(oid[i])])

\* snprint_objid(buf, buf_len, objid, objidlen) as net-snmp documents it: the
\* text of the first objidlen entries, cut to buf_len - 1 bytes and terminated.
snprint_objid(buf, buf_len, objid, objidlen) ==
    LET oid  == SubSeq(objid, 1, objidlen)
        text == IF nativeInits > 0 /\ oid \in MibOids THEN MibName(oid) ELSE Numeric(oid)
        out  == Take(text, buf_len - 1) \o <<NUL>>
    IN  out \o SubSeq(buf, Len(out) + 1, Len(buf))

\* Buffers a misbehaving primitive could leave: no terminator at all, an
\* invalid UTF-8 byte, a text that fills the buffer up to its last byte.
JunkBuffers ==
    { Repeat(Ch.a, MAX_NAME_LEN),
      <<Ch.bad, Ch.a>> \o Repeat(NUL, MAX_NAME_LEN - 2),
      Repeat(Ch.a, MAX_NAME_LEN - 1) \o <<NUL>> }

\* What snprint_objid may do: keep its contract, or leave one of the junk buffers.
NameOutcomes ==
    {[mode |-> "conforming", buf |-> <<>>]}
    \cup {[mode |-> "arbitrary", buf |-> j] : j \in JunkBuffers}

\* What may lie in memory right after name_buf: the read past the buffer
\* faults, or finds these bytes up to the next NUL.
Beyond ==
    { [fault |-> TRUE, bytes |-> <<>>],
      [fault |-> FALSE, bytes |-> <<NUL>>],
      [fault |-> FALSE, bytes |-> <<Ch.b, NUL>>] }

\* get_node(name, oid, oid_len) as net-snmp documents it: status, the new
\* length and the entries written.
get_node(c_name, cap) ==
    LET text == SubSeq(c_name, 1, Len(c_name) - 1)
        hits == {o \in MibOids : MibName(o) = text}
    IN  IF nativeInits > 0 /\ hits # {} /\ Len(CHOOSE o \in hits : TRUE) <= cap
        THEN LET o == CHOOSE o \in hits : TRUE
             IN  [status |-> 1, len |-> Len(o), oid |-> o]
        ELSE [status |-> 0, len |-> cap, oid |-> <<>>]

\* Results a misbehaving get_node could report with a success status.
JunkNodes ==
    { [status |-> 1, len |-> MAX_OID_LEN + 1, oid |-> Repeat(1, MAX_OID_LEN)],
      [status |-> 1, len |-> 0, oid |-> <<>>],
      [status |-> 1, len |-> 1, oid |-> <<0>>],
      [status |-> 1, len |-> 2, oid |-> <<9, 1>>],
      [status |-> 1, len |-> 2, oid |-> <<1, 3>>] }

\* What get_node may do: keep its contract, or report one of the junk results.
NodeOutcomes ==
    {[mode |-> "conforming", status |-> 0, len |-> 0, oid |-> <<>>]}
    \cup {[mode |-> "arbitrary", status |-> j.status, len |-> j.len, oid |-> j.oid] :
             j \in JunkNodes}

----------------------------------------------------------------------------
(* der_parser's Oid, as the sequence of its components *)

\* Oid::from(&[u64]): at least two components, the first below 7 and the second
\* below 40; the single component 0 is accepted as well.
oid_from(s) ==
    IF Len(s) < 2
    THEN IF s = <<0>> THEN [ok |-> TRUE, oid |-> s] ELSE [ok |-> FALSE, oid |-> <<>>]
    ELSE IF s[1] >= 7 \/ s[2] >= 40 THEN [ok |-> FALSE, oid |-> <<>>]
    ELSE [ok |-> TRUE, oid |-> s]

----------------------------------------------------------------------------
(* get_name (lib.rs:154-203) *)

Ret(res, val, native, oob) == [res |-> res, val |-> val, native |-> native, oob |-> oob]

\* lib.rs:164-172, n counting from 0 as enumerate() does.  In `n_oid[n] = ...?`
\* the right-hand side is evaluated, and its error returned, before the place
\* n_oid[n] is bounds-checked.
RECURSIVE encode_loop(_, _, _, _)
encode_loop(snmp_oid, n, n_oid, n_len) ==
    IF n >= Len(snmp_oid) THEN [res |-> "Running", n_oid |-> n_oid, n_len |-> n_len]
    ELSE IF n > MAX_OID_LEN THEN [res |-> "InvalidData", n_oid |-> n_oid, n_len |-> n_len]
    ELSE IF snmp_oid[n + 1] > OID_MAX THEN [res |-> "Failed", n_oid |-> n_oid, n_len |-> n_len]
    ELSE IF n >= Len(n_oid) THEN [res |-> "Panic", n_oid |-> n_oid, n_len |-> n_len]
    ELSE encode_loop(snmp_oid, n + 1, [n_oid EXCEPT ![n + 1] = snmp_oid[n + 1]], n_len + 1)

\* lib.rs:159-163
encode_oid(snmp_oid) == encode_loop(snmp_oid, 0, Repeat(0, MAX_OID_LEN), 0)

FirstNul(bytes) == CHOOSE i \in 1..Len(bytes) : bytes[i] = NUL /\ \A j \in 1..(i - 1) : bytes[j] # NUL

\* lib.rs:201-202: CStr::from_ptr scans from the start of name_buf to the first
\* NUL, wherever that is; with none inside the buffer the scan runs on into the
\* memory after it (undefined behaviour: a fault, or whatever bytes lie there).
decode_name(name_buf, beyond) ==
    IF HasNul(name_buf)
    THEN Ret("Ok", to_string_lossy(SubSeq(name_buf, 1, FirstNul(name_buf) - 1)), TRUE, FALSE)
    ELSE IF beyond.fault THEN Ret("Fault", <<>>, TRUE, TRUE)
    ELSE Ret("Ok", to_string_lossy(name_buf \o SubSeq(beyond.bytes, 1, FirstNul(beyond.bytes) - 1)), TRUE, TRUE)

\* lib.rs:173-200: name_buf after the call of the native primitive
print_name(n_oid, n_len, nat) ==
    IF nat.mode = "conforming"
    THEN snprint_objid(Repeat(NUL, MAX_NAME_LEN), MAX_NAME_LEN, n_oid, n_len)
    ELSE nat.buf

get_name(snmp_oid, nat, beyond) ==
    LET e == encode_oid(snmp_oid)
    IN  IF e.res # "Running" THEN Ret(e.res, <<>>, FALSE, FALSE)
        ELSE IF variant = "dynamic" /\ NETSNMP = None THEN Ret("Panic", <<>>, FALSE, FALSE)
        ELSE IF variant = "dynamic" /\ "snprint_objid" \notin LibSymbols[NETSNMP]
             THEN Ret("Failed", <<>>, FALSE, FALSE)
        ELSE decode_name(print_name(e.n_oid, e.n_len, nat), beyond)

----------------------------------------------------------------------------
(* get_oid (lib.rs:212-240) *)

\* `*v as u64` on a native oid
as_u64(v) == v % (OID_MAX + 1)

oid_slice_short(n_oid, len) == [i \in 1..(len - 1) |-> as_u64(n_oid[i])]

\* lib.rs:237: n_oid[..len], each entry cast
oid_slice(n_oid, len) == [i \in 1..len |-> as_u64(n_oid[i])]

\* lib.rs:233-239
decode_oid(status, n_oid, len) ==
    IF status = 0 THEN Ret("Failed", <<>>, TRUE, FALSE)
    ELSE IF len > Len(n_oid) THEN Ret("Panic", <<>>, TRUE, FALSE)
    ELSE LET o == oid_from(oid_slice(n_oid, len))
         IN  IF o.ok THEN Ret("Ok", o.oid, TRUE, FALSE) ELSE Ret("Failed", <<>>, TRUE, FALSE)

\* lib.rs:222-232: the call of the native primitive
find_node(c_name, nat) ==
    LET r == IF nat.mode = "conforming" THEN get_node(c_name, MAX_OID_LEN) ELSE nat
    IN  [status |-> r.status, len |-> r.len,
         n_oid |-> [i \in 1..MAX_OID_LEN |-> IF i <= Len(r.oid) THEN r.oid[i] ELSE 0]]

get_oid_cell_first(name, nat) ==
    IF variant = "dynamic" /\ NETSNMP = None THEN Ret("Panic", <<>>, FALSE, FALSE)
    ELSE LET c_name == cstring_new(name)
         IN  IF ~c_name.ok THEN Ret("InvalidData", <<>>, FALSE, FALSE)
             ELSE IF variant = "dynamic" /\ "get_node" \notin LibSymbols[NETSNMP]
                  THEN Ret("Failed", <<>>, FALSE, FALSE)
             ELSE LET r == find_node(c_name.bytes, nat)
                  IN  decode_oid(r.status, r.n_oid, r.len)

get_oid(name, nat) ==
    LET c_name == cstring_new(name)
    IN  IF ~c_name.ok THEN Ret("InvalidData", <<>>, FALSE, FALSE)
        ELSE IF variant = "dynamic" /\ NETSNMP = None THEN Ret("Panic", <<>>, FALSE, FALSE)
        ELSE IF variant = "dynamic" /\ "get_node" \notin LibSymbols[NETSNMP]
             THEN Ret("Failed", <<>>, FALSE, FALSE)
        ELSE LET r == find_node(c_name.bytes, nat)
             IN  decode_oid(r.status, r.n_oid, r.len)

----------------------------------------------------------------------------
(* The calls a program makes *)

BigComponent == OID_MAX + 1

OidInputs ==
    {TestOid, <<1, 3>>, <<0>>, <<1, BigComponent>>}
    \cup {Extend(p, n) : p \in {<<1, 3>>, <<1, BigComponent>>},
                         n \in (MAX_OID_LEN - 1)..(MAX_OID_LEN + MaxExtra)}
    \cup {Append(Extend(<<1, 3>>, n - 1), BigComponent) :
                         n \in MAX_OID_LEN..(MAX_OID_LEN + MaxExtra)}

BasicOids == {TestOid}

FixedNames == {TestName, CapName, <<>>, <<Ch.a>>, <<Ch.a, NUL>>, <<NUL>>}

BasicNames == {TestName}

Conforming(outcomes) == {o \in outcomes : o.mode = "conforming"}

NoCall ==
    [ op |-> "none", mibs |-> <<>>, mib_dirs |-> <<>>, lib |-> None, oid |-> <<>>,
      name |-> <<>>, mode |-> "conforming", res |-> "Ok", val |-> <<>>,
      native |-> FALSE, oob |-> FALSE, steps |-> <<>>, sawEnv |-> InitialEnv,
      linked |-> FALSE, from |-> <<>>, status |-> 0, len |-> 0, wrote |-> <<>> ]

\* The name passed to get_oid is what the get_name call just before returned.
LinkedTo(name) ==
    /\ last.op = "get_name" /\ last.res = "Ok" /\ ~last.oob
    /\ last.mode = "conforming" /\ name = last.val

Init ==
    /\ variant \in {"static", "dynamic"}
    /\ env = InitialEnv
    /\ NETSNMP = None
    /\ nativeInits = 0
    /\ initDone = FALSE
    /\ last = NoCall

\* init(&config), for a config of cfgs
InitCall(cfgs) ==
    /\ nativeInits < MaxInits
    /\ \E cfg \in cfgs :
         LET c == init_run(cfg, Ctx0)
         IN  /\ env' = c.env
             /\ NETSNMP' = c.cell
             /\ nativeInits' = c.inits
             /\ initDone' = (initDone \/ c.res = "Ok")
             /\ last' = [NoCall EXCEPT !.op = "init", !.mibs = cfg.mibs,
                           !.mib_dirs = cfg.mib_dirs, !.lib = c.lib, !.res = c.res,
                           !.native = c.called, !.steps = c.steps,
                           !.sawEnv = c.sawEnv]
    /\ UNCHANGED variant

\* get_name(&snmp_oid), for an OID of oids and a native outcome of outcomes
GetNameCall(oids, outcomes) ==
    /\ \E snmp_oid \in oids, nat \in outcomes :
         \E beyond \in (IF nat.mode = "arbitrary" /\ ~HasNul(nat.buf)
                         THEN Beyond ELSE {[fault |-> TRUE, bytes |-> <<>>]}) :
           LET r == get_name(snmp_oid, nat, beyond)
           IN  last' = [NoCall EXCEPT !.op = "get_name", !.oid = snmp_oid,
                          !.mode = nat.mode,
                          !.res = r.res, !.val = r.val, !.native = r.native,
                          !.oob = r.oob]
    /\ UNCHANGED <<variant, env, NETSNMP, nativeInits, initDone>>

\* get_oid(&name), for a name of names, or the name the get_name call just
\* before returned, and a native outcome of outcomes
GetOidCall(names, outcomes) ==
    /\ \E name \in names \cup (IF last.op = "get_name" /\ last.res = "Ok"
                               THEN {last.val} ELSE {}),
          nat \in outcomes :
         LET r == get_oid(name, nat)
             n == IF r.native THEN find_node(cstring_new(name).bytes, nat)
                  ELSE [status |-> 0, len |-> 0, n_oid |-> <<>>]
         IN  last' = [NoCall EXCEPT !.op = "get_oid", !.name = name,
                        !.mode = nat.mode,
                        !.res = r.res, !.val = r.val, !.native = r.native,
                        !.status = n.status, !.len = n.len, !.wrote = n.n_oid,
                        !.linked = LinkedTo(name),
                        !.from = (IF LinkedTo(name) THEN last.oid ELSE <<>>)]
    /\ UNCHANGED <<variant, env, NETSNMP, nativeInits, initDone>>

\* The environment in full: every pair of path lists, with one library, a
\* well-behaved resolver and one resolution call each way.
Next ==
    \/ InitCall(ListConfigsOfBuild)
    \/ GetNameCall(BasicOids, Conforming(NameOutcomes))
    \/ GetOidCall(BasicNames, Conforming(NodeOutcomes))

Spec == Init /\ [][Next]_vars

\* Resolution in full: every OID, name, native outcome, application name and
\* library, with no path lists or one path in each.
NextResolve ==
    \/ InitCall(PlainConfigsOfBuild)
    \/ GetNameCall(OidInputs, NameOutcomes)
    \/ GetOidCall(FixedNames, NodeOutcomes)

SpecResolve == Init /\ [][NextResolve]_vars

----------------------------------------------------------------------------
(* Vocabulary of the properties *)

IsInit == last.op = "init"
IsGetName == last.op = "get_name"
IsGetOid == last.op = "get_oid"

IsPrefix(s, t) == Len(s) <= Len(t) /\ s = SubSeq(t, 1, Len(s))

\* The steps of init in the order section 4.2 of the specification gives them.
StepOrder ==
    IF variant = "dynamic"
    THEN <<"env", "app_name", "lib_path", "open", "resolve", "native_init", "store">>
    ELSE <<"env", "app_name", "native_init">>

\* The elements of a non-empty list separated by ':', defined from the back.
RECURSIVE ColonJoined(_)
ColonJoined(list) ==
    IF Len(list) = 1 THEN list[1]
    ELSE ColonJoined(SubSeq(list, 1, Len(list) - 1)) \o <<CH_colon>> \o list[Len(list)]

AnyNul(list) == \E i \in 1..Len(list) : HasNul(list[i])

\* The library bound by a successful init provides the primitive.
Provides(symbol) == variant = "dynamic" => (NETSNMP # None /\ symbol \in LibSymbols[NETSNMP])

----------------------------------------------------------------------------
(* C1 *)

----------------------------------------------------------------------------
(* C2 *)

\* C2 as stated: once an init call has succeeded, a later init call neither
\* invokes the native init primitive nor changes the stored library.
C2_Original ==
    [][(initDone /\ last'.op = "init")
         => (nativeInits' = nativeInits /\ NETSNMP' = NETSNMP)]_vars

\* C2: once an init call has succeeded, a later init call never changes the
\* stored library; when it gets as far as the native init primitive it invokes
\* it once more and then returns Ok (static build) or panics at the store
\* (dynamic build), and in the dynamic build it never returns Ok.
C2_NeverReplaced ==
    [][(initDone /\ last'.op = "init")
         => /\ NETSNMP' = NETSNMP
            /\ (last'.native => /\ nativeInits' = nativeInits + 1
                                /\ last'.res = (IF variant = "dynamic" THEN "Panic" ELSE "Ok"))
            /\ (~last'.native => nativeInits' = nativeInits)
            /\ (variant = "dynamic" => last'.res # "Ok")]_vars

\* A second init of the dynamic build has invoked native init and panicked.
C2_Witness ==
    /\ IsInit /\ variant = "dynamic" /\ initDone /\ nativeInits = 2
    /\ last.native /\ last.res = "Panic" /\ NETSNMP # None /\ last.lib # NETSNMP

----------------------------------------------------------------------------
(* C3 *)

\* C3 as stated: a get_name or get_oid call made while no init has succeeded
\* panics and does not reach the native primitive.
C3_Original ==
    ((IsGetName \/ IsGetOid) /\ ~initDone) => (last.res = "Panic" /\ ~last.native)

----------------------------------------------------------------------------
(* C4 *)

\* C4 as stated: get_name of an OID longer than MAX_OID_LEN fails with
\* InvalidData without panicking and without invoking the native primitive.
C4_Original ==
    (IsGetName /\ Len(last.oid) > MAX_OID_LEN) => (last.res = "InvalidData" /\ ~last.native)

----------------------------------------------------------------------------
(* C5 *)

Required == {"init_snmp", "snprint_objid", "get_node"}

Opened == IsInit /\ variant = "dynamic" /\ last.lib # None

\* C5 as stated: init on a library that lacks one of the three symbols returns
\* Failed, before native init and without storing the library.
C5_Original ==
    (Opened /\ ~(Required \subseteq LibSymbols[last.lib]))
        => (last.res = "Failed" /\ ~last.native /\ NETSNMP # last.lib)

\* C5: init on a library that lacks init_snmp returns Failed, before native
\* init and without storing the library; a library that lacks only
\* snprint_objid or get_node gets native init invoked, and the missing symbol is
\* reported as Failed, before the native primitive, by the get_name or get_oid
\* call that looks it up.
C5_LazySymbols ==
    /\ (Opened /\ "init_snmp" \notin LibSymbols[last.lib])
           => (last.res = "Failed" /\ ~last.native /\ NETSNMP # last.lib
               /\ last.steps = SubSeq(StepOrder, 1, 4))
    /\ (Opened /\ "init_snmp" \in LibSymbols[last.lib])
           => (last.native /\ last.res \in {"Ok", "Panic"})
    /\ (/\ IsGetName /\ variant = "dynamic" /\ NETSNMP # None
        /\ "snprint_objid" \notin LibSymbols[NETSNMP] /\ encode_oid(last.oid).res = "Running")
           => (last.res = "Failed" /\ ~last.native)
    /\ (/\ IsGetOid /\ variant = "dynamic" /\ NETSNMP # None
        /\ "get_node" \notin LibSymbols[NETSNMP] /\ ~HasNul(last.name))
           => (last.res = "Failed" /\ ~last.native)

\* init has failed on an opened library without init_snmp.
C5_Witness ==
    /\ Opened /\ last.lib = "noinit" /\ last.res = "Failed" /\ ~last.native
    /\ NETSNMP = None /\ nativeInits = 0

----------------------------------------------------------------------------
(* C6 *)

EnvAfter(list, before) == IF list = <<>> THEN before ELSE Set(ColonJoined(list))

----------------------------------------------------------------------------
(* C7 *)

----------------------------------------------------------------------------
(* C8 *)

\* C8 as stated: whatever the native primitive left in name_buf, decoding in
\* get_name (here after a successful init) returns a string and reads inside
\* the buffer only.
C8_Original == (IsGetName /\ initDone /\ last.native) => (last.res = "Ok" /\ ~last.oob)

----------------------------------------------------------------------------
(* C9 *)

\* C9: the steps of an init call are an initial part of the order env,
\* app_name, (dynamic: lib_path, open, resolve,) native_init, (dynamic: store);
\* the call returns Ok exactly when all of them ran; native init, when invoked,
\* saw the environment the call leaves behind; and only an init call that has
\* invoked native init changes the stored library or the count of native inits.
C9_StepOrder ==
    [][/\ (last'.op = "init")
           => /\ IsPrefix(last'.steps, StepOrder)
              /\ (last'.res = "Ok") = (last'.steps = StepOrder)
              /\ last'.native = (\E i \in 1..Len(last'.steps) : last'.steps[i] = "native_init")
              /\ (last'.native
                   => /\ last'.sawEnv = env'
                      /\ env'["MIBS"] = EnvAfter(last'.mibs, env["MIBS"])
                      /\ env'["MIBDIRS"] = EnvAfter(last'.mib_dirs, env["MIBDIRS"])
                      /\ nativeInits' = nativeInits + 1)
       /\ (NETSNMP' # NETSNMP \/ nativeInits' # nativeInits)
           => (last'.op = "init" /\ last'.native)
       /\ (NETSNMP' # NETSNMP)
           => (NETSNMP = None /\ last'.steps = StepOrder /\ NETSNMP' = last'.lib)]_vars

\* An init call has set MIBS and then failed at the symbol lookup, native init
\* not invoked.
C9_Witness ==
    /\ IsInit /\ variant = "dynamic" /\ last.mibs # <<>> /\ env["MIBS"].set
    /\ last.steps = <<"env", "app_name", "lib_path", "open">>
    /\ last.res = "Failed" /\ ~last.native /\ NETSNMP = None

----------------------------------------------------------------------------
(* C10 *)

\* C10 as stated: when get_node reports success (here after a successful
\* init), get_oid returns Failed for a reported length above MAX_OID_LEN and
\* otherwise builds its result from the first `length` entries; it never
\* panics.
C10_Original ==
    (IsGetOid /\ initDone /\ last.native /\ last.status # 0)
        => /\ last.res # "Panic"
           /\ (last.len > MAX_OID_LEN => last.res = "Failed")
           /\ ((last.len <= MAX_OID_LEN /\ last.res = "Ok")
                 => last.val = SubSeq(last.wrote, 1, last.len))
====
